---------------------------- MODULE Spec2Model ----------------------------
(***************************************************************************)
(* Model of charleskorn/query-log-analysis: the replay of logged PromQL    *)
(* queries against a storage double that records, per one-hour block, how  *)
(* often data of that age was selected (src/main.go, src/unnamed/part_000).*)
(*                                                                         *)
(* Time base.  Go's time.Duration counts nanoseconds; here a Duration      *)
(* counts milliseconds (Millisecond == 1), the resolution of the mint/maxt *)
(* values the engine hands to Querier, so that 396 hours fit TLC's 32-bit  *)
(* integers.  A time.Time is a record [unixMilli |-> n] counted from the   *)
(* model's epoch.                                                          *)
(*                                                                         *)
(* Granularity.  Every action holds at most one operation on a shared      *)
(* atomic.Int64, so that the interleavings of several goroutines are those *)
(* of the Go memory model for sync/atomic.                                 *)
(***************************************************************************)
EXTENDS Integers, Sequences, FiniteSets, Bags, TLC

VARIABLES
    stats,      \* the one *statistics of the run: queryCount, selectCount, blockRangesQueried
    corpus,     \* the log lines (parsed) the files of this run may hold
    g,          \* per goroutine: position in run/analyseFile/analyseLogLine/IncrementBlockRanges and its locals
    h           \* history (not program state): snapshots at call entries, the calls made

vars == <<stats, corpus, g, h>>

---------------------------------------------------------------------------
(* time.Duration constants *)

Millisecond == 1
Second == 1000 * Millisecond
Minute == 60 * Second
Hour == 60 * Minute

(* Bounds of the model *)

\* queries replayed in one run, over all its files
MaxReplays == 3
\* goroutines sharing one statistics in SpecConc
NumWorkers == 2
\* queries replayed in SpecConc, over all its goroutines
MaxWorkerReplays == 2

---------------------------------------------------------------------------
(* Values *)

Max(a, b) == IF a > b THEN a ELSE b

\* a nil error; an error is the sequence of the parts of its message
Nil == <<>>

\* fmt.Errorf(msg + "%w", cause)
Errorf(msg, cause) == <<msg>> \o cause

\* whether the message of err holds text
Mentions(err, text) == \E k \in 1..Len(err) : err[k] = text

\* len(s.blockRangesQueried) as made by newStatistics
NumBlockRanges == 396

BlockIndexes == 0..(NumBlockRanges - 1)

newStatistics ==
    [queryCount |-> 0, selectCount |-> 0,
     blockRangesQueried |-> [i \in BlockIndexes |-> 0]]

\* time.UnixMilli(i)
int64MillisToTime(i) == [unixMilli |-> i]

\* t.Sub(u), a Duration
Sub(t, u) == (t.unixMilli - u.unixMilli) * Millisecond

\* t.Add(d)
AddDuration(t, d) == [unixMilli |-> t.unixMilli + d \div Millisecond]

\* durationToInt64Millis / the engine's timeMilliseconds
timeToInt64Millis(t) == t.unixMilli

---------------------------------------------------------------------------
(* The log lines *)

\* the instant the test's queries ran, from the model's epoch
baseTimestamp == int64MillisToTime(400 * Hour)

ZeroTime == int64MillisToTime(0)

ZeroLogLine ==
    [timestamp |-> ZeroTime, query |-> "", isRangeQuery |-> FALSE,
     queryTime |-> ZeroTime, queryStartTime |-> ZeroTime, queryEndTime |-> ZeroTime]

\* a range query over [timestamp - startAgo, timestamp - endAgo]
RangeLine(query, startAgo, endAgo) ==
    [timestamp |-> baseTimestamp, query |-> query, isRangeQuery |-> TRUE,
     queryTime |-> ZeroTime,
     queryStartTime |-> AddDuration(baseTimestamp, 0 - startAgo),
     queryEndTime |-> AddDuration(baseTimestamp, 0 - endAgo)]

\* an instant query at timestamp - ago
InstantLine(query, ago) ==
    [timestamp |-> baseTimestamp, query |-> query, isRangeQuery |-> FALSE,
     queryTime |-> AddDuration(baseTimestamp, 0 - ago),
     queryStartTime |-> ZeroTime, queryEndTime |-> ZeroTime]

Corpus ==
    { RangeLine("metric{}", 47 * Hour, 46 * Hour),
      RangeLine("metric_A{} / metric_B{}", 47 * Hour, 46 * Hour),
      RangeLine("vector(1)", 48 * Hour, 47 * Hour),
      RangeLine("metric{", 47 * Hour, 46 * Hour),
      InstantLine("metric{}", 47 * Hour),
      \* the whole range after the query ran
      RangeLine("metric{}", 0 - Hour, 0 - 2 * Hour),
      \* a range that starts after the query ran
      RangeLine("metric{}", 30 * Minute, 0 - 30 * Minute),
      \* from and to on block boundaries: 1h ago to 2h ago
      RangeLine("metric{}", 2 * Hour - 5 * Minute, Hour),
      \* neither on a block boundary: 1h30m ago to 2h15m ago
      RangeLine("metric{}", 2 * Hour + 10 * Minute, Hour + 30 * Minute),
      \* at the end of the 396 blocks, and beyond
      RangeLine("metric{}", 396 * Hour, 395 * Hour),
      RangeLine("metric{}", 397 * Hour, 396 * Hour),
      \* end before start
      RangeLine("metric{}", Hour, 2 * Hour) }

ConcCorpus ==
    { RangeLine("metric_A{} / metric_B{}", 47 * Hour, 46 * Hour),
      InstantLine("metric{}", 47 * Hour) }

\* ranges that run over the 396 blocks: from before the epoch to beyond the
\* last block, and from the middle of block 394 to beyond the last block
LongCorpus ==
    { RangeLine("metric{}", 399 * Hour, 0 - 30 * Minute),
      RangeLine("metric{}", 399 * Hour, 394 * Hour + 30 * Minute) }

\* flag.Args()
ArgChoices == { <<>>, <<"a.log">>, <<"a.log", "b.log">> }

WorkerArgChoices == { <<>>, <<"a.log">> }


---------------------------------------------------------------------------
(* The PromQL engine, as main.go configures it and main_test.go observes it *)

\* EngineOpts.LookbackDelta
LookbackDelta == 5 * Minute

\* the query texts the engine's parser accepts
EngineParses(query) ==
    query \in {"metric{}", "metric_A{} / metric_B{}", "vector(1)"}

\* the vector selectors of a query: one Select each
NumSelectors(query) ==
    CASE query = "metric{}" -> 1
      [] query = "metric_A{} / metric_B{}" -> 2
      [] OTHER -> 0

\* the errors the engine reports
ParseError == <<"1:8: parse error: unexpected end of input inside braces">>
ExecErrors == { <<"query timed out in expression evaluation">> }

\* engine.NewRangeQuery(ctx, queryable, opts, qs, start, end, interval):
\* the window the query's selectors read, start less the lookback to end
NewRangeQuery(qs, start, end) ==
    IF EngineParses(qs)
    THEN [err |-> Nil, selectors |-> NumSelectors(qs),
          mint |-> timeToInt64Millis(start) - LookbackDelta \div Millisecond,
          maxt |-> timeToInt64Millis(end)]
    ELSE [err |-> ParseError, selectors |-> 0, mint |-> 0, maxt |-> 0]

\* engine.NewInstantQuery(ctx, queryable, opts, qs, ts)
NewInstantQuery(qs, ts) == NewRangeQuery(qs, ts, ts)

NoQuery == [err |-> Nil, selectors |-> 0, mint |-> 0, maxt |-> 0]

---------------------------------------------------------------------------
(* queryRangeCollectingQueryable and queryRangeCollectingQuerier *)

\* from taken from mint and to from maxt
QuerierUnswapped(queryTimestamp, mint, maxt) ==
    [from |-> Sub(queryTimestamp, int64MillisToTime(mint)),
     to |-> Sub(queryTimestamp, int64MillisToTime(maxt))]

\* Querier(ctx, mint, maxt): min/max are swapped to from/to,
\* "from ago to to ago"
Querier(queryTimestamp, mint, maxt) ==
    [from |-> Sub(queryTimestamp, int64MillisToTime(maxt)),
     to |-> Sub(queryTimestamp, int64MillisToTime(mint))]

NoQuerier == [from |-> 0, to |-> 0]

---------------------------------------------------------------------------
(* statistics.IncrementBlockRanges, piece by piece *)

\* Store(1) where Add(1) is meant
Add1Store(v) == 1

\* atomic.Int64.Add(1)
Add1(v) == v + 1

\* the check of from and to left out
FromAfterToUnchecked(from, to) == FALSE

\* if from > to { panic(...) }
FromAfterTo(from, to) == from > to

\* a return for a range after the query ran, before the select is counted
CountSelectPast(s, from, to) ==
    IF to <= 0 THEN s ELSE [s EXCEPT !.selectCount = Add1(@)]

\* s.selectCount.Add(1), made on every call that does not panic
CountSelect(s, from, to) == [s EXCEPT !.selectCount = Add1(@)]

\* currentBlock := max(0, from)
FirstBlock(from) == Max(0, from)

\* the loop going on only while a whole block is left before to
InRangeWholeBlock(currentBlock, to) == currentBlock + Hour < to

\* for currentBlock < to
InRange(currentBlock, to) == currentBlock < to

\* i := currentBlock / time.Hour
BlockIndex(currentBlock) == currentBlock \div Hour

\* the last block taken for the end of the range
PastLastBlockEarly(s, i) == i >= NumBlockRanges - 1

\* int(i) >= len(s.blockRangesQueried)
PastLastBlock(s, i) == i >= NumBlockRanges

\* the block marked as queried, not counted
CountBlockOnce(s, i) == [s EXCEPT !.blockRangesQueried[i] = 1]

\* s.blockRangesQueried[i].Add(1)
CountBlock(s, i) == [s EXCEPT !.blockRangesQueried[i] = Add1(@)]

\* an advance by half an hour
NextBlockHalf(currentBlock) == currentBlock + 30 * Minute

\* an advance by an hour from wherever currentBlock is
NextBlockUnaligned(currentBlock) == currentBlock + Hour

\* the advance to the beginning of the next block
NextBlock(currentBlock) ==
    IF currentBlock % Hour = 0
    THEN currentBlock + Hour
    ELSE currentBlock + (Hour - (currentBlock % Hour))

---------------------------------------------------------------------------
(* analyseLogLine, analyseFile and run: what they return *)

\* a statistics made anew for the replay
CountQueryFresh(s, logLine) == [newStatistics EXCEPT !.queryCount = Add1(s.queryCount)]

\* the query counted only once the engine has created it
CountQueryCreated(s, logLine) ==
    IF EngineParses(logLine.query) THEN [s EXCEPT !.queryCount = Add1(@)] ELSE s

\* stats.queryCount.Add(1), the first statement of analyseLogLine
CountQuery(s, logLine) == [s EXCEPT !.queryCount = Add1(@)]

\* analyseLogLine's error for a query the engine does not create
CreateError(logLine, cause) == Errorf("could not create query: ", cause)

\* the query text put into the error
ExecErrorWithQuery(logLine, cause) ==
    <<"query execution failed: ", logLine.query, ": ">> \o cause

\* analyseLogLine's error for a result with an Err
ExecError(logLine, cause) == Errorf("query execution failed: ", cause)

\* q.Close() called after the check of result.Err, not deferred
CloseUnlessError(acquired, err) == IF err # Nil THEN acquired ELSE FALSE

\* defer q.Close(): whatever analyseLogLine returns, the query is released
DeferredClose(acquired, err) == FALSE

\* the error logged and the loop going on
ReturnsOnErrorNever(err) == FALSE

\* analyseFile: if err := parseAndAnalyseLogLine(l, stats); err != nil { return err }
ReturnsOnError(err) == err # Nil

\* run: fmt.Errorf("analysing file %v failed: %w", path, err)
RunError(path, err) == <<"analysing file ", path, " failed: ">> \o err

---------------------------------------------------------------------------
(* The goroutines *)

Goroutines == DOMAIN g

\* the snapshots of the history are those of the program, of one goroutine
Sequential == Cardinality(Goroutines) = 1

\* the bound on the replays of a run
ReplaysBound == IF Sequential THEN MaxReplays ELSE MaxWorkerReplays

NewGoroutine(args) ==
    [pc |-> "run", paths |-> args, logLine |-> ZeroLogLine,
     q |-> NoQuery, acquired |-> FALSE, querier |-> NoQuerier, selectsLeft |-> 0,
     currentBlock |-> 0, lineErr |-> Nil, runErr |-> Nil]

\* a panic that nothing recovers ends the process, every goroutine with it
Running == \A t \in Goroutines : g[t].pc # "panic"

\* block i, the ages [i*Hour, (i+1)*Hour), meets the ages [max(from, 0), to)
Intersects(i, from, to) ==
    /\ Max(from, 0) < to
    /\ Max(from, 0) < (i + 1) * Hour
    /\ i * Hour < to

\* the history: per goroutine the statistics at its entry into analyseLogLine
\* and into IncrementBlockRanges and the Selects of its replay; the replays
\* begun, the calls of IncrementBlockRanges made and, per block, how many of
\* them have a range that meets the block; per goroutine the Queriers the
\* engine opened in its replay and the blocks its call has counted so far
NewHistory(ts) ==
    [lineEntry |-> [t \in ts |-> newStatistics],
     callEntry |-> [t \in ts |-> newStatistics],
     selects |-> [t \in ts |-> 0],
     sessions |-> [t \in ts |-> 0],
     turns |-> [t \in ts |-> 0],
     lines |-> 0,
     calls |-> EmptyBag,
     hits |-> [i \in BlockIndexes |-> 0]]

\* the program: one goroutine, main
Init ==
    /\ stats = newStatistics
    /\ corpus = Corpus
    /\ \E args \in ArgChoices : g = [t \in {1} |-> NewGoroutine(args)]
    /\ h = NewHistory({1})

\* the program on log files of long ranges
InitLong ==
    /\ stats = newStatistics
    /\ corpus = LongCorpus
    /\ \E args \in ArgChoices : g = [t \in {1} |-> NewGoroutine(args)]
    /\ h = NewHistory({1})

\* NumWorkers goroutines replaying their files into one statistics
InitConc ==
    /\ stats = newStatistics
    /\ corpus = ConcCorpus
    /\ g \in [1..NumWorkers -> {NewGoroutine(args) : args \in WorkerArgChoices}]
    /\ h = NewHistory(1..NumWorkers)

---------------------------------------------------------------------------
(* run *)

\* run, to its loop: no paths is an error
RunStart(t) ==
    /\ Running
    /\ g[t].pc = "run"
    /\ IF Len(g[t].paths) = 0
       THEN g' = [g EXCEPT ![t] = [@ EXCEPT !.pc = "exit",
                                            !.runErr = <<"no paths specified">>]]
       ELSE g' = [g EXCEPT ![t] = [@ EXCEPT !.pc = "nextPath"]]
    /\ UNCHANGED <<stats, corpus, h>>

\* for _, path := range paths: analyseFile opens the path; after the last
\* path run writes the report and returns nil
RunNextPath(t) ==
    /\ Running
    /\ g[t].pc = "nextPath"
    /\ \/ /\ Len(g[t].paths) = 0
          /\ g' = [g EXCEPT ![t] = [@ EXCEPT !.pc = "exit", !.runErr = Nil]]
       \/ /\ Len(g[t].paths) > 0
          /\ g' = [g EXCEPT ![t] = [@ EXCEPT !.pc = "readLine"]]
       \/ /\ Len(g[t].paths) > 0
          /\ g' = [g EXCEPT ![t] =
                     [@ EXCEPT !.pc = "exit",
                               !.runErr = RunError(Head(g[t].paths),
                                              Errorf("could not open file: ",
                                                     <<"no such file or directory">>))]]
    /\ UNCHANGED <<stats, corpus, h>>

---------------------------------------------------------------------------
(* analyseFile and parseAndAnalyseLogLine *)

\* one turn of analyseFile's loop, up to the call of analyseLogLine
ReadLine(t) ==
    /\ Running
    /\ g[t].pc = "readLine"
    /\ \/ \* io.EOF: return nil, on to the next path
          g' = [g EXCEPT ![t] = [@ EXCEPT !.pc = "nextPath", !.paths = Tail(@)]]
       \/ \* another read error: return err
          g' = [g EXCEPT ![t] =
                  [@ EXCEPT !.pc = "exit",
                            !.runErr = RunError(Head(g[t].paths), <<"read error">>)]]
       \/ \* a line parseLogLine skips
          g' = g
       \/ \* a line parseLogLine rejects
          g' = [g EXCEPT ![t] =
                     [@ EXCEPT !.pc = "exit",
                               !.runErr = RunError(Head(g[t].paths),
                                   <<"parsing log line '", "not json", "' failed: ",
                                     "invalid character">>)]]
       \/ \* a query
          /\ stats.queryCount
                + Cardinality({u \in Goroutines : g[u].pc = "analyseLogLine"})
                < ReplaysBound
          /\ \E l \in corpus :
                g' = [g EXCEPT ![t] = [@ EXCEPT !.pc = "analyseLogLine",
                                                !.logLine = l]]
    /\ UNCHANGED <<stats, corpus, h>>

\* analyseFile, after parseAndAnalyseLogLine returns
AnalyseFileNext(t) ==
    /\ Running
    /\ g[t].pc = "analysed"
    /\ IF ReturnsOnError(g[t].lineErr)
       THEN g' = [g EXCEPT ![t] =
                    [@ EXCEPT !.pc = "exit",
                              !.runErr = RunError(Head(g[t].paths), g[t].lineErr)]]
       ELSE g' = [g EXCEPT ![t] =
                    [@ EXCEPT !.pc = "readLine", !.logLine = ZeroLogLine,
                              !.q = NoQuery, !.querier = NoQuerier,
                              !.lineErr = Nil]]
    /\ h' = [h EXCEPT !.lineEntry[t] = newStatistics, !.selects[t] = 0,
                      !.sessions[t] = 0]
    /\ UNCHANGED <<stats, corpus>>

---------------------------------------------------------------------------
(* analyseLogLine *)

\* stats.queryCount.Add(1), then the query is created
AnalyseLogLine(t) ==
    /\ Running
    /\ g[t].pc = "analyseLogLine"
    /\ stats' = CountQuery(stats, g[t].logLine)
    /\ LET l == g[t].logLine
           q == IF l.isRangeQuery
                THEN NewRangeQuery(l.query, l.queryStartTime, l.queryEndTime)
                ELSE NewInstantQuery(l.query, l.queryTime)
       IN  IF q.err # Nil
           THEN g' = [g EXCEPT ![t] = [@ EXCEPT !.pc = "analysed",
                                                !.lineErr = CreateError(l, q.err)]]
           ELSE g' = [g EXCEPT ![t] = [@ EXCEPT !.pc = "exec", !.q = q,
                                                !.acquired = TRUE]]
    /\ h' = [h EXCEPT !.lineEntry[t] = IF Sequential THEN stats ELSE @,
                      !.selects[t] = 0, !.sessions[t] = 0, !.lines = @ + 1]
    /\ UNCHANGED corpus

\* q.Exec: the engine opens a Querier on the query's window, or gives up
\* before it selects anything; on that return the deferred q.Close runs
Exec(t) ==
    /\ Running
    /\ g[t].pc = "exec"
    /\ \/ /\ g' = [g EXCEPT ![t] =
                     [@ EXCEPT !.pc = "select",
                               !.querier = Querier(g[t].logLine.timestamp,
                                                   g[t].q.mint, g[t].q.maxt),
                               !.selectsLeft = g[t].q.selectors]]
          /\ h' = [h EXCEPT !.sessions[t] = @ + 1]
       \/ /\ \E cause \in ExecErrors :
                g' = [g EXCEPT ![t] =
                        [@ EXCEPT !.pc = "analysed",
                                  !.acquired = DeferredClose(@, cause),
                                  !.lineErr = ExecError(g[t].logLine, cause)]]
          /\ h' = h
    /\ UNCHANGED <<stats, corpus>>

\* the engine has made its Selects: result.Err is nil or not, the deferred
\* q.Close runs and analyseLogLine returns
ExecFinish(t) ==
    /\ Running
    /\ g[t].pc = "select"
    /\ g[t].selectsLeft = 0
    /\ \E cause \in ExecErrors \cup {Nil} :
          g' = [g EXCEPT ![t] =
                  [@ EXCEPT !.pc = "analysed",
                            !.acquired = DeferredClose(@, cause),
                            !.lineErr = IF cause # Nil
                                        THEN ExecError(g[t].logLine, cause)
                                        ELSE Nil]]
    /\ UNCHANGED <<stats, corpus, h>>

---------------------------------------------------------------------------
(* queryRangeCollectingQuerier.Select and statistics.IncrementBlockRanges *)

\* Select calls IncrementBlockRanges(q.from, q.to): the check of from and
\* to, selectCount.Add(1) and currentBlock := max(0, from).  The panic
\* unwinds the goroutine through analyseLogLine, whose deferred q.Close
\* runs, and ends the process.
Select(t) ==
    /\ Running
    /\ g[t].pc = "select"
    /\ g[t].selectsLeft > 0
    /\ LET from == g[t].querier.from
           to == g[t].querier.to
       IN  IF FromAfterTo(from, to)
           THEN /\ g' = [g EXCEPT ![t] =
                           [@ EXCEPT !.pc = "panic",
                                     !.acquired = DeferredClose(@, <<"panic">>)]]
                /\ stats' = stats
                /\ h' = [h EXCEPT !.callEntry[t] = IF Sequential THEN stats ELSE @]
           ELSE /\ g' = [g EXCEPT ![t] = [@ EXCEPT !.pc = "loop",
                                                   !.currentBlock = FirstBlock(from)]]
                /\ stats' = CountSelect(stats, from, to)
                /\ h' = [h EXCEPT !.callEntry[t] = IF Sequential THEN stats ELSE @,
                                  !.selects[t] = @ + 1,
                                  !.turns[t] = 0,
                                  !.calls = @ (+) SetToBag({<<from, to>>}),
                                  !.hits = [i \in BlockIndexes |->
                                              @[i] + (IF Intersects(i, from, to)
                                                      THEN 1 ELSE 0)]]
    /\ UNCHANGED corpus

\* one turn of IncrementBlockRanges' loop, or its return
Loop(t) ==
    /\ Running
    /\ g[t].pc = "loop"
    /\ LET currentBlock == g[t].currentBlock
           i == BlockIndex(currentBlock)
       IN  IF InRange(currentBlock, g[t].querier.to) /\ ~PastLastBlock(stats, i)
           THEN /\ stats' = CountBlock(stats, i)
                /\ g' = [g EXCEPT ![t] = [@ EXCEPT !.currentBlock = NextBlock(currentBlock)]]
                /\ h' = [h EXCEPT !.turns[t] = @ + 1]
           ELSE /\ stats' = stats
                /\ g' = [g EXCEPT ![t] = [@ EXCEPT !.pc = "selected",
                                                   !.currentBlock = 0]]
                /\ h' = h
    /\ UNCHANGED corpus

\* Select returns storage.EmptySeriesSet()
SelectReturn(t) ==
    /\ Running
    /\ g[t].pc = "selected"
    /\ g' = [g EXCEPT ![t] = [@ EXCEPT !.pc = "select", !.selectsLeft = @ - 1]]
    /\ h' = [h EXCEPT !.callEntry[t] = newStatistics, !.turns[t] = 0]
    /\ UNCHANGED <<stats, corpus>>

---------------------------------------------------------------------------

Next ==
    \/ \E t \in Goroutines : RunStart(t)
    \/ \E t \in Goroutines : RunNextPath(t)
    \/ \E t \in Goroutines : ReadLine(t)
    \/ \E t \in Goroutines : AnalyseLogLine(t)
    \/ \E t \in Goroutines : Exec(t)
    \/ \E t \in Goroutines : Select(t)
    \/ \E t \in Goroutines : Loop(t)
    \/ \E t \in Goroutines : SelectReturn(t)
    \/ \E t \in Goroutines : ExecFinish(t)
    \/ \E t \in Goroutines : AnalyseFileNext(t)

\* the program
Spec == Init /\ [][Next]_vars

\* several goroutines on one statistics
SpecConc == InitConc /\ [][Next]_vars

\* the program on long ranges; a goroutine that is in the loop of
\* IncrementBlockRanges goes on with it: nothing in the loop blocks
SpecLong ==
    InitLong /\ [][Next]_vars /\ WF_vars(\E t \in Goroutines : Loop(t))

---------------------------------------------------------------------------
(* Properties of statistics.IncrementBlockRanges *)

Horizon == NumBlockRanges * Hour

\* goroutine t is back from a call of IncrementBlockRanges
Returned(t) == g[t].pc = "selected"

C2_FutureRangeCountsSelectOnly ==
    \A t \in Goroutines :
        (Returned(t) /\ g[t].querier.to <= 0) =>
            /\ stats.blockRangesQueried = h.callEntry[t].blockRangesQueried
            /\ stats.selectCount = h.callEntry[t].selectCount + 1
            /\ stats.queryCount = h.callEntry[t].queryCount

\* a call for a range after the query ran is back, on a statistics that
\* earlier calls have written to
C2_Witness ==
    \E t \in Goroutines :
        /\ Returned(t)
        /\ g[t].querier.from < g[t].querier.to
        /\ g[t].querier.to < 0
        /\ h.callEntry[t].selectCount > 0
        /\ \E i \in BlockIndexes : stats.blockRangesQueried[i] > 0

\* C3: a call with from > to panics and leaves queryCount, selectCount and
\* every block as they were before the call; it never gets to count.
C3_PanicLeavesCounters ==
    \A t \in Goroutines :
        /\ g[t].pc = "panic" => stats = h.callEntry[t]
        /\ g[t].pc \in {"loop", "selected"} =>
               g[t].querier.from <= g[t].querier.to

\* a call with from > to has panicked, after calls that counted
C3_Witness ==
    \E t \in Goroutines :
        /\ g[t].pc = "panic"
        /\ g[t].querier.from > g[t].querier.to
        /\ stats.selectCount > 0
        /\ stats.queryCount > 1

---------------------------------------------------------------------------
(* Several goroutines *)

\* no goroutine is inside IncrementBlockRanges
AllReturned == \A t \in Goroutines : g[t].pc # "loop"

\* C5: with calls of IncrementBlockRanges and increments of queryCount
\* running in several goroutines on one statistics no update is lost: when
\* all calls are back selectCount is the number of calls, queryCount the
\* number of replays and each block the number of calls whose range meets it.
C5_NoLostUpdate ==
    AllReturned =>
        /\ stats.selectCount = BagCardinality(h.calls)
        /\ stats.queryCount = h.lines
        /\ stats.blockRangesQueried = h.hits

\* two goroutines have both been inside IncrementBlockRanges and are both
\* back, block 47 raised by calls of both
C5_Witness ==
    /\ AllReturned
    /\ \A t \in Goroutines : g[t].pc = "selected"
    /\ stats.blockRangesQueried[47] >= 3
    /\ stats.selectCount >= 3

---------------------------------------------------------------------------
(* Properties of analyseLogLine, analyseFile and run *)

\* analyseLogLine has returned in goroutine t
Analysed(t) == g[t].pc = "analysed"

\* analyseLogLine has returned an error in goroutine t
Failed(t) == Analysed(t) /\ g[t].lineErr # Nil

\* C6: every call of analyseLogLine raises queryCount by exactly 1, whether
\* the query is evaluated, is not created or fails in execution, and
\* whatever the number of Selects it made.
C6_QueryCountedOnce ==
    \A t \in Goroutines :
        Analysed(t) => stats.queryCount = h.lineEntry[t].queryCount + 1

\* analyseLogLine is back with "could not create query", not the first
\* replay of the run, and the query is counted
C6_Witness ==
    \E t \in Goroutines :
        /\ Failed(t)
        /\ g[t].lineErr[1] = "could not create query: "
        /\ h.selects[t] = 0
        /\ h.lineEntry[t].queryCount > 0
        /\ stats.queryCount = h.lineEntry[t].queryCount + 1

ExitOnReplayError(t) ==
    /\ g[t].pc = "exit"
    /\ \/ Mentions(g[t].runErr, "could not create query: ")
       \/ Mentions(g[t].runErr, "query execution failed: ")

\* C8, as claimed: a replay that fails does not end the run; the files that
\* remain are still replayed, so no run ends on such a failure with a path
\* it has not opened.
C8_RunGoesOnAfterFailure ==
    \A t \in Goroutines : ExitOnReplayError(t) => Len(g[t].paths) <= 1

\* C8, amended: a replay that fails ends the run: the step after
\* analyseLogLine returned an error is run's return of that error behind
\* "analysing file <path> failed: ", the statistics as they were; after that
\* the goroutine takes no step, so no further line or file is replayed.
C8_FailureEndsRun ==
    [][\A t \in Goroutines :
          /\ (Failed(t) /\ g'[t] # g[t]) =>
                /\ g'[t].pc = "exit"
                /\ g'[t].runErr =
                      <<"analysing file ", Head(g[t].paths), " failed: ">> \o g[t].lineErr
                /\ g'[t].paths = g[t].paths
                /\ stats' = stats
          /\ g[t].pc = "exit" => g'[t] = g[t]]_vars

\* run has returned the error of a failed execution with a second path
\* still to open, after a replay that went well
C8_Witness ==
    \E t \in Goroutines :
        /\ ExitOnReplayError(t)
        /\ Len(g[t].paths) = 2
        /\ stats.queryCount = 2

\* analyseLogLine is in or back from q.Exec with a Querier open
HasQuerier(t) == g[t].pc \in {"select", "loop", "selected", "panic"}

\* C9: for a Querier opened with the window [mint, maxt] by a query that ran
\* at T the range given to IncrementBlockRanges is (T - maxt, T - mint), so
\* that mint <= maxt gives from <= to.
C9_RangeFromWindow ==
    \A t \in Goroutines :
        HasQuerier(t) =>
            LET T == g[t].logLine.timestamp.unixMilli
            IN  /\ g[t].querier.from = (T - g[t].q.maxt) * Millisecond
                /\ g[t].querier.to = (T - g[t].q.mint) * Millisecond
                /\ g[t].q.mint <= g[t].q.maxt => g[t].querier.from <= g[t].querier.to
                /\ g[t].pc \in {"loop", "selected"} =>
                       h.calls[<<(T - g[t].q.maxt) * Millisecond,
                                 (T - g[t].q.mint) * Millisecond>>] > 0

\* IncrementBlockRanges runs for a window with mint < maxt: 46h to 47h5m ago
C9_Witness ==
    \E t \in Goroutines :
        /\ g[t].pc = "loop"
        /\ g[t].q.mint < g[t].q.maxt
        /\ g[t].querier.from = 46 * Hour
        /\ g[t].querier.to = 47 * Hour + 5 * Minute

\* C10: selections are counted by event: a replay in which the engine made k
\* Selects raises selectCount by exactly k and queryCount by exactly 1, and
\* raises by k each block that the range of those Selects meets (two
\* selectors: selectCount 2, queryCount 1, each block met 2).
C10_SelectsCountedPerEvent ==
    \A t \in Goroutines :
        Analysed(t) =>
            LET before == h.lineEntry[t]
                k == h.selects[t]
            IN  /\ stats.selectCount = before.selectCount + k
                /\ stats.queryCount = before.queryCount + 1
                /\ \A i \in BlockIndexes :
                      stats.blockRangesQueried[i] =
                          before.blockRangesQueried[i]
                          + (IF Intersects(i, g[t].querier.from, g[t].querier.to)
                             THEN k ELSE 0)

\* the replay of "metric_A{} / metric_B{}" is back without an error:
\* selectCount up by 2, queryCount by 1, blocks 46 and 47 by 2
C10_Witness ==
    \E t \in Goroutines :
        /\ Analysed(t)
        /\ g[t].lineErr = Nil
        /\ h.selects[t] = 2
        /\ stats.selectCount = h.lineEntry[t].selectCount + 2
        /\ stats.queryCount = h.lineEntry[t].queryCount + 1
        /\ stats.blockRangesQueried[46] = h.lineEntry[t].blockRangesQueried[46] + 2
        /\ stats.blockRangesQueried[47] = h.lineEntry[t].blockRangesQueried[47] + 2
        /\ stats.blockRangesQueried[48] = h.lineEntry[t].blockRangesQueried[48]

---------------------------------------------------------------------------
(* Failed replays and the release of the query *)

\* C11, as claimed: a replay that fails adds nothing to the blocks: when
\* analyseLogLine has returned an error every block is as it was before the
\* call.
C11_FailedReplayLeavesBlocks ==
    \A t \in Goroutines :
        Failed(t) =>
            stats.blockRangesQueried = h.lineEntry[t].blockRangesQueried

\* C11, amended: a replay that fails before the engine made a Select (the
\* query is not created, or q.Exec gives up at once) leaves every block and
\* selectCount as they were; a replay that fails after k Selects keeps what
\* those k calls of IncrementBlockRanges counted, nothing is taken back.
C11_FailedReplayKeepsItsSelects ==
    \A t \in Goroutines :
        Failed(t) =>
            LET before == h.lineEntry[t]
                k == h.selects[t]
            IN  /\ g[t].lineErr[1] = "could not create query: " => k = 0
                /\ k = 0 =>
                      /\ stats.blockRangesQueried = before.blockRangesQueried
                      /\ stats.selectCount = before.selectCount
                /\ k > 0 =>
                      /\ g[t].lineErr[1] = "query execution failed: "
                      /\ stats.selectCount = before.selectCount + k
                      /\ \A i \in BlockIndexes :
                            /\ stats.blockRangesQueried[i] >= before.blockRangesQueried[i]
                            /\ Intersects(i, g[t].querier.from, g[t].querier.to) =>
                                  stats.blockRangesQueried[i] =
                                      before.blockRangesQueried[i] + k

\* analyseLogLine is back with "query execution failed" after a Select that
\* raised blocks 46 and 47, which stay raised
C11_Witness ==
    \E t \in Goroutines :
        /\ Failed(t)
        /\ h.selects[t] = 1
        /\ stats.blockRangesQueried[46] = h.lineEntry[t].blockRangesQueried[46] + 1
        /\ stats.blockRangesQueried[47] = h.lineEntry[t].blockRangesQueried[47] + 1

\* C12: every query the engine created for analyseLogLine is released by
\* q.Close on every way out, the failed execution among them: the query is
\* held while q.Exec runs and analyseLogLine never returns with it held.
C12_QueryReleasedOnReturn ==
    \A t \in Goroutines :
        /\ g[t].pc \in {"exec", "select", "loop", "selected"} => g[t].acquired
        /\ g[t].pc \in {"analysed", "readLine", "nextPath", "exit", "panic"} =>
               ~g[t].acquired

\* analyseLogLine is back from an execution that failed after its Selects,
\* the query released
C12_Witness ==
    \E t \in Goroutines :
        /\ Failed(t)
        /\ g[t].lineErr[1] = "query execution failed: "
        /\ h.selects[t] > 0
        /\ ~g[t].acquired

---------------------------------------------------------------------------
(* The window of a range query, sessions and Selects *)

C14_OneCallPerSession ==
    \A t \in Goroutines :
        Analysed(t) => h.selects[t] = h.sessions[t]

\* C14, amended: IncrementBlockRanges is called by Select, once per Select,
\* with the window of the Querier the Select is made on; Querier itself
\* counts nothing.  A replay that opened a Querier and ran to the end has
\* raised selectCount by the number of selectors of its query, which is 0
\* for a query without a selector and 2 for a query with two.
C14_OneCallPerSelect ==
    \A t \in Goroutines :
        /\ g[t].pc = "select" /\ h.sessions[t] = 1 =>
              /\ h.selects[t] = g[t].q.selectors - g[t].selectsLeft
              /\ Sequential =>
                    stats.selectCount = h.lineEntry[t].selectCount + h.selects[t]
        /\ Analysed(t) /\ h.sessions[t] = 1 =>
              /\ h.selects[t] = g[t].q.selectors
              /\ Sequential =>
                    stats.selectCount =
                        h.lineEntry[t].selectCount + g[t].q.selectors
              /\ g[t].q.selectors > 0 =>
                    BagIn(<<g[t].querier.from, g[t].querier.to>>, h.calls)
        /\ h.sessions[t] \in {0, 1}
        /\ h.sessions[t] = 0 => h.selects[t] = 0

\* a replay is back that opened one Querier and made two Selects on it
C14_Witness ==
    \E t \in Goroutines :
        /\ Analysed(t)
        /\ h.sessions[t] = 1
        /\ h.selects[t] = 2
        /\ stats.selectCount = h.lineEntry[t].selectCount + 2

---------------------------------------------------------------------------
(* The counters over a run *)

\* C15: no step lowers queryCount, selectCount or a block, and the blocks
\* stay the 396 of newStatistics.
C15_CountersNeverDecrease ==
    [][ /\ stats'.queryCount >= stats.queryCount
        /\ stats'.selectCount >= stats.selectCount
        /\ DOMAIN stats'.blockRangesQueried = BlockIndexes
        /\ Cardinality(DOMAIN stats'.blockRangesQueried) = NumBlockRanges
        /\ \A i \in BlockIndexes :
              stats'.blockRangesQueried[i] >= stats.blockRangesQueried[i] ]_vars

\* a third replay has begun on blocks the first two have raised
C15_Witness ==
    /\ stats.queryCount = 3
    /\ stats.selectCount >= 2
    /\ stats.blockRangesQueried[46] >= 2
    /\ Cardinality(DOMAIN stats.blockRangesQueried) = NumBlockRanges

\* C16: in every state, those in the middle of calls of IncrementBlockRanges
\* that run at the same time among them, no block is above selectCount.
C16_BlockAtMostSelectCount ==
    \A i \in BlockIndexes : stats.blockRangesQueried[i] <= stats.selectCount

\* two goroutines are in the loop of IncrementBlockRanges and both have
\* raised block 46, which equals selectCount
C16_Witness ==
    /\ Cardinality({t \in Goroutines : g[t].pc = "loop"}) = 2
    /\ stats.selectCount = 2
    /\ stats.blockRangesQueried[46] = 2

---------------------------------------------------------------------------
(* The end of IncrementBlockRanges' loop *)

\* C17: whatever from <= to, every turn of the loop moves currentBlock up,
\* to the beginning of a block, a call counts 396 blocks at most, and the
\* loop ends, when currentBlock reaches to or the block is beyond the last.
C17_LoopEnds ==
    /\ [](\A t \in Goroutines : h.turns[t] <= NumBlockRanges)
    /\ [][ \A t \in Goroutines :
             g[t].pc = "loop" =>
                 \/ /\ g'[t].pc = "loop"
                    /\ g'[t].currentBlock > g[t].currentBlock
                    /\ g'[t].currentBlock % Hour = 0
                    /\ h'.turns[t] = h.turns[t] + 1
                 \/ /\ g'[t].pc = "selected"
                    /\ \/ g[t].currentBlock >= g[t].querier.to
                       \/ BlockIndex(g[t].currentBlock) >= NumBlockRanges ]_vars
    /\ \A t \in {1} : (g[t].pc = "loop") ~> (g[t].pc = "selected")

\* a call from before the epoch to beyond the last block has counted all
\* the 396 blocks and is about to leave the loop at the last block's end
C17_Witness ==
    \E t \in Goroutines :
        /\ g[t].pc = "loop"
        /\ g[t].querier.from < 0
        /\ g[t].querier.from % Hour # 0
        /\ h.turns[t] = NumBlockRanges
        /\ g[t].currentBlock = NumBlockRanges * Hour
        /\ g[t].currentBlock < g[t].querier.to

=============================================================================
